---- MODULE Spec2Model ----
(***************************************************************************)
(* Hybrid retrieval pipeline of the medicine-rag service                   *)
(* (src/mcp/search.go): SearchTool.Run, hybridSearch, the two rank         *)
(* collectors, fetchChunksByIds and GroupBySectionWithRank.                *)
(*                                                                         *)
(* Numbers.  The code computes scores in float64.  The model keeps them    *)
(* exact: a fused score is an integer number of 1/ScoreScale units, a      *)
(* section score is a fraction [n, d] of 1/GroupScale units.  For the      *)
(* ranks the model reaches, two different exact scores are many orders of  *)
(* magnitude further apart than a float64 rounding error.                  *)
(*                                                                         *)
(* Pointers.  A *db.ChunkModel is modelled by the chunk's id; the record   *)
(* it points to is Corpus[id] (chunk records are never mutated).           *)
(***************************************************************************)
EXTENDS Integers, Sequences, FiniteSets, TLC

\* ---------------------------------------------------------------- constants
rrfK == 60
textSearchWeight == 1
vectorSearchWeight == 1

\* Bounds.  maxChunks is 30 in the source and OutCap (the capacity of the
\* output channel) is 20; MaxHits stands for textK = vecK = 30, the longest
\* hit list an engine returns.  They are scaled down together so that the
\* top-M cut and a full output buffer both happen.
maxChunks == 2
MaxHits == 2
OutCap == 1

\* The longest chunk list GroupBySectionWithRank is given when it is checked
\* on its own; long enough for two sections to tie in score.
MaxGroupLen == 6

\* ------------------------------------------------------------------- corpus
\* The chunk store.  Three sections; "e" is in the store but never a hit, so
\* it is only ever reached as a neighbour; "f" is a section of one chunk,
\* without neighbours.  "x" is an id the vector collection still holds
\* although the chunk collection has no record for it.
ChunkIds == {"a", "b", "c", "d", "e", "f"}
HitIds == {"a", "b", "c", "d"}
VecHitIds == HitIds \cup {"x"}

Chunk(id, sec, win, prev, next, sents) ==
    [ChunkID |-> id, SectionID |-> sec, WindowIndex |-> win,
     PrevChunkID |-> prev, NextChunkID |-> next,
     Title |-> "T-" \o id, SourceURI |-> "u-" \o id, Sentences |-> sents]

Corpus ==
    [id \in ChunkIds |->
        CASE id = "a" -> Chunk("a", "S1", 1, "", "b", <<"a1", "a2">>)
          [] id = "b" -> Chunk("b", "S1", 2, "a", "c", <<"b1">>)
          [] id = "c" -> Chunk("c", "S1", 3, "b", "", <<"c1">>)
          [] id = "d" -> Chunk("d", "S2", 1, "", "e", <<"d1">>)
          [] id = "e" -> Chunk("e", "S2", 2, "d", "", <<"e1", "e2">>)
          [] id = "f" -> Chunk("f", "S3", 1, "", "", <<"f1">>)]

\* ------------------------------------------------------------------ helpers
EmptyMap == [x \in {} |-> 0]

Range(s) == {s[i] : i \in 1..Len(s)}

Perms(S) ==
    {s \in [1..Cardinality(S) -> S] :
        \A i, j \in 1..Cardinality(S) : i # j => s[i] # s[j]}

SeqsUpTo(S, n) == UNION {[1..k -> S] : k \in 0..n}

RECURSIVE Product(_, _)
Product(lo, hi) == IF lo > hi THEN 1 ELSE hi * Product(lo, hi - 1)

RECURSIVE Flatten(_)
Flatten(ss) == IF ss = <<>> THEN <<>> ELSE Head(ss) \o Flatten(Tail(ss))

Front(s) == SubSeq(s, 1, Len(s) - 1)

\* linq.Reverse
Reverse(s) == [i \in 1..Len(s) |-> s[Len(s) + 1 - i]]

\* One unit of fused score is 1/ScoreScale; every 1/(rrfK + r) with
\* r <= MaxHits is a whole number of units.
ScoreScale == Product(rrfK + 1, rrfK + MaxHits)

\* One unit of section score is 1/GroupScale; 1/r and 0.15/r with
\* r <= MaxGroupLen (and so r <= maxChunks) are whole numbers of units.
GroupScale == 20 * Product(1, MaxGroupLen)

\* ----------------------------------------------------------- rank collectors
\* The loop of collectTextSearchRanks / collectVectorSearchRanks over the
\* first k hits: the first occurrence of an id keeps its 1-based position.
RECURSIVE CollectRanks(_, _)
CollectRanks(hits, k) ==
    IF k = 0 THEN EmptyMap
    ELSE LET ranks == CollectRanks(hits, k - 1)
             id == hits[k]
         IN IF id \in DOMAIN ranks THEN ranks
            ELSE [x \in DOMAIN ranks \cup {id} |->
                    IF x = id THEN k ELSE ranks[x]]

\* res is the awaited task result [err, hits]; on error the maps stay empty.
collectTextSearchRanks(res) ==
    IF res.err
    THEN [ranks |-> EmptyMap, cache |-> {}, err |-> TRUE]
    ELSE LET r == CollectRanks(res.hits, Len(res.hits))
         IN [ranks |-> r, cache |-> DOMAIN r, err |-> FALSE]

collectVectorSearchRanks(res) ==
    IF res.err
    THEN [ranks |-> EmptyMap, err |-> TRUE]
    ELSE [ranks |-> CollectRanks(res.hits, Len(res.hits)), err |-> FALSE]

\* ---------------------------------------------------------------- RRF fusion
RRFTerm(w, r) == (w * ScoreScale) \div (rrfK + r)

\* Fuse with "=" in place of "+=" in the vector loop.
FuseOverwrite(tr, vr) ==
    [id \in DOMAIN tr \cup DOMAIN vr |->
        IF id \in DOMAIN vr THEN RRFTerm(vectorSearchWeight, vr[id])
        ELSE RRFTerm(textSearchWeight, tr[id])]

\* combined[id] = textWeight/(rrfK+r) for text ids, then += for vector ids
\* (a vector-only id starts from the map's zero value).
Fuse(tr, vr) ==
    [id \in DOMAIN tr \cup DOMAIN vr |->
        (IF id \in DOMAIN tr THEN RRFTerm(textSearchWeight, tr[id]) ELSE 0)
      + (IF id \in DOMAIN vr THEN RRFTerm(vectorSearchWeight, vr[id]) ELSE 0)]

\* ------------------------------------------------------------ top-M selection
\* The heap holds pairs {id, score}; ids are map keys, so the heap is the set
\* of ids it holds.  Pop removes an element no other element is less than;
\* which one among equal scores depends on the heap's layout.
MinOf(H, sc) == {m \in H : \A x \in H : ~(sc[x] < sc[m])}

\* PushThenTrim over a heap whose less is reversed (a.score > b.score).
PushThenTrimMax(H, id, sc) ==
    LET H1 == H \cup {id}
    IN IF Cardinality(H1) > maxChunks
       THEN {H1 \ {m} : m \in {m \in H1 : \A x \in H1 : ~(sc[m] < sc[x])}}
       ELSE {H1}

PushThenTrim(H, id, sc) ==
    LET H1 == H \cup {id}
    IN IF Cardinality(H1) > maxChunks
       THEN {H1 \ {m} : m \in MinOf(H1, sc)}
       ELSE {H1}

\* Heaps possible after the first k ids of an iteration order of the map.
RECURSIVE HeapsAfter(_, _, _)
HeapsAfter(order, k, sc) ==
    IF k = 0 THEN {{}}
    ELSE UNION {PushThenTrim(H, order[k], sc) : H \in HeapsAfter(order, k - 1, sc)}

\* h.ToSortedSlice(): ascending by the heap's less.
ToSortedSlice(H, sc) ==
    {s \in Perms(H) : \A i, j \in 1..Len(s) : i < j => ~(sc[s[j]] < sc[s[i]])}

\* Every id list the selection can produce: Go iterates the map in an
\* unspecified order.
TopIds(sc) ==
    UNION {UNION {{Reverse(s) : s \in ToSortedSlice(H, sc)} :
                    H \in HeapsAfter(order, Len(order), sc)} :
            order \in Perms(DOMAIN sc)}

\* ---------------------------------------------------------- fetchChunksByIds
\* fetchChunksByIds with the ids served from the cache put before the
\* fetched ones.
fetchChunksCachedFirst(cache, rankedIds, findFails) ==
    IF Len(rankedIds) = 0 THEN [ordered |-> <<>>, calls |-> <<>>]
    ELSE LET missing == SelectSeq(rankedIds, LAMBDA id : id \notin cache)
             dbChunks == IF Len(missing) = 0 \/ findFails THEN {}
                         ELSE Range(missing) \cap ChunkIds
         IN [ordered |-> SelectSeq(rankedIds, LAMBDA id : id \in cache)
                         \o SelectSeq(missing, LAMBDA id : id \in dbChunks),
             calls |-> IF Len(missing) > 0 THEN <<missing>> ELSE <<>>]

\* fetchChunksByIds with one Find request for each missing id.
fetchChunksOneByOne(cache, rankedIds, findFails) ==
    IF Len(rankedIds) = 0 THEN [ordered |-> <<>>, calls |-> <<>>]
    ELSE LET missing == SelectSeq(rankedIds, LAMBDA id : id \notin cache)
             dbChunks == IF Len(missing) = 0 \/ findFails THEN {}
                         ELSE Range(missing) \cap ChunkIds
             chunkByID == (Range(rankedIds) \cap cache) \cup dbChunks
         IN [ordered |-> SelectSeq(rankedIds, LAMBDA id : id \in chunkByID),
             calls |-> [i \in 1..Len(missing) |-> <<missing[i]>>]]

\* fetchChunksByIds returning nothing when Find fails.
fetchChunksAbortOnError(cache, rankedIds, findFails) ==
    IF Len(rankedIds) = 0 THEN [ordered |-> <<>>, calls |-> <<>>]
    ELSE LET missing == SelectSeq(rankedIds, LAMBDA id : id \notin cache)
             dbChunks == IF Len(missing) = 0 \/ findFails THEN {}
                         ELSE Range(missing) \cap ChunkIds
             chunkByID == (Range(rankedIds) \cap cache) \cup dbChunks
         IN [ordered |-> IF Len(missing) > 0 /\ findFails THEN <<>>
                         ELSE SelectSeq(rankedIds, LAMBDA id : id \in chunkByID),
             calls |-> IF Len(missing) > 0 THEN <<missing>> ELSE <<>>]

\* cache is the set of ids the caller's cache holds; findFails says whether
\* the store's Find returns an error (and no records).  calls is the list of
\* Find requests issued: none, or one carrying every missing id.  &ch in the
\* range loop over dbChunks is a fresh variable per iteration (Go 1.22 and
\* later; the image builds with Go 1.24), so each id maps to its own record.
fetchChunksByIds(cache, rankedIds, findFails) ==
    IF Len(rankedIds) = 0 THEN [ordered |-> <<>>, calls |-> <<>>]
    ELSE LET missing == SelectSeq(rankedIds, LAMBDA id : id \notin cache)
             dbChunks == IF Len(missing) = 0 \/ findFails THEN {}
                         ELSE Range(missing) \cap ChunkIds
             chunkByID == (Range(rankedIds) \cap cache) \cup dbChunks
         IN [ordered |-> SelectSeq(rankedIds, LAMBDA id : id \in chunkByID),
             calls |-> IF Len(missing) > 0 THEN <<missing>> ELSE <<>>]

\* --------------------------------------------------- GroupBySectionWithRank
AdjacencyBonus(w) == (3 * w) \div 20      \* 0.15 * w
rr(rank) == GroupScale \div rank          \* W / rank^P, W = P = 1

\* HasAdjacent looking at the window after as well as the window before.
HasAdjacentEitherSide(a, ch) ==
    (ch.WindowIndex - 1) \in a.seenWin \/ (ch.WindowIndex + 1) \in a.seenWin

\* if _, ok := a.seenWin[ch.WindowIndex-1]; ok
HasAdjacent(a, ch) == (ch.WindowIndex - 1) \in a.seenWin

\* The first loop over chunks[1..k]: section id -> agg.  bonusAt is not in the
\* code: it records the ranks at which the adjacency bonus was added.
RECURSIVE GroupFold(_, _)
GroupFold(chunks, k) ==
    IF k = 0 THEN EmptyMap
    ELSE LET secs == GroupFold(chunks, k - 1)
             ch == Corpus[chunks[k]]
             rank == k
             a == IF ch.SectionID \in DOMAIN secs THEN secs[ch.SectionID]
                  ELSE [score |-> 0, count |-> 0, bestRank |-> rank,
                        seenWin |-> {}, collected |-> <<>>, bonusAt |-> {}]
             w == rr(rank)
             a2 == [score |-> a.score + w
                              + (IF HasAdjacent(a, ch)
                                 THEN AdjacencyBonus(w) ELSE 0),
                    bonusAt |-> IF HasAdjacent(a, ch)
                                THEN a.bonusAt \cup {rank} ELSE a.bonusAt,
                    count |-> a.count + 1,
                    bestRank |-> IF rank < a.bestRank THEN rank ELSE a.bestRank,
                    seenWin |-> a.seenWin \cup {ch.WindowIndex},
                    collected |-> Append(a.collected, chunks[k])]
         IN [s \in DOMAIN secs \cup {ch.SectionID} |->
                IF s = ch.SectionID THEN a2 ELSE secs[s]]

\* Diminish dividing by 1 + Lambda*count.
DiminishByCount(a) ==
    IF a.count > 1
    THEN [n |-> a.score * 10, d |-> 10 + a.count]
    ELSE [n |-> a.score, d |-> 1]

\* Diminishing returns: score /= 1 + Lambda*(count-1), Lambda = 0.10, only
\* when count > 1.  The quotient is kept as the fraction n/d.
Diminish(a) ==
    IF a.count > 1
    THEN [n |-> a.score * 10, d |-> 10 + (a.count - 1)]
    ELSE [n |-> a.score, d |-> 1]

\* The kv entries the second loop appends to order, by section id.
SectionAggs(chunks) ==
    LET secs == GroupFold(chunks, Len(chunks))
    IN [s \in DOMAIN secs |->
          [secID |-> s, score |-> Diminish(secs[s]), count |-> secs[s].count,
           bestRank |-> secs[s].bestRank, collected |-> secs[s].collected]]

\* kvCmp with the bestRank tie-break the wrong way round.
kvCmpWorstRankFirst(x, y) ==
    LET xs == x.score.n * y.score.d
        ys == y.score.n * x.score.d
    IN IF xs # ys THEN (IF xs > ys THEN -1 ELSE 1)
       ELSE IF x.bestRank # y.bestRank
            THEN (IF x.bestRank > y.bestRank THEN -1 ELSE 1)
       ELSE IF x.count # y.count
            THEN (IF x.count > y.count THEN -1 ELSE 1)
       ELSE 0

\* kvCmp with the count tie-break ahead of bestRank.
kvCmpCountFirst(x, y) ==
    LET xs == x.score.n * y.score.d
        ys == y.score.n * x.score.d
    IN IF xs # ys THEN (IF xs > ys THEN -1 ELSE 1)
       ELSE IF x.count # y.count
            THEN (IF x.count > y.count THEN -1 ELSE 1)
       ELSE IF x.bestRank # y.bestRank
            THEN (IF x.bestRank < y.bestRank THEN -1 ELSE 1)
       ELSE 0

\* The comparison function given to slices.SortFunc.
kvCmp(x, y) ==
    LET xs == x.score.n * y.score.d
        ys == y.score.n * x.score.d
    IN IF xs # ys THEN (IF xs > ys THEN -1 ELSE 1)
       ELSE IF x.bestRank # y.bestRank
            THEN (IF x.bestRank < y.bestRank THEN -1 ELSE 1)
       ELSE IF x.count # y.count
            THEN (IF x.count > y.count THEN -1 ELSE 1)
       ELSE 0

\* slices.SortFunc and sort.Slice on at most 12 elements are an insertion
\* sort: each element moves left past every element it is less than.
RECURSIVE InsertKv(_, _)
InsertKv(sorted, x) ==
    IF sorted = <<>> THEN <<x>>
    ELSE IF kvCmp(x, sorted[Len(sorted)]) < 0
         THEN Append(InsertKv(Front(sorted), x), sorted[Len(sorted)])
         ELSE Append(sorted, x)

RECURSIVE SortKv(_, _)
SortKv(order, k) ==
    IF k = 0 THEN <<>> ELSE InsertKv(SortKv(order, k - 1), order[k])

\* Every output GroupBySectionWithRank can produce: the sections map is
\* iterated in an unspecified order before the sort.
GroupBySectionWithRank(chunks) ==
    IF Len(chunks) = 0 THEN {<<>>}
    ELSE LET aggs == SectionAggs(chunks)
         IN {LET order == [i \in 1..Len(p) |-> aggs[p[i]]]
                 sorted == SortKv(order, Len(order))
             IN [i \in 1..Len(sorted) |-> sorted[i].collected]
             : p \in Perms(DOMAIN aggs)}

\* ------------------------------------------------- Run: one section's passage
windowLess(x, y) == Corpus[x].WindowIndex < Corpus[y].WindowIndex

RECURSIVE InsertByWindow(_, _)
InsertByWindow(sorted, x) ==
    IF sorted = <<>> THEN <<x>>
    ELSE IF windowLess(x, sorted[Len(sorted)])
         THEN Append(InsertByWindow(Front(sorted), x), sorted[Len(sorted)])
         ELSE Append(sorted, x)

RECURSIVE SortByWindow(_, _)
SortByWindow(chunks, k) ==
    IF k = 0 THEN <<>> ELSE InsertByWindow(SortByWindow(chunks, k - 1), chunks[k])

\* AddNeeded without the added-set test.
AddNeededNoDedup(need, id) ==
    IF id # "" THEN Append(need, id) ELSE need

\* added.Contains / added.Add / append
AddNeeded(need, id) ==
    IF id # "" /\ id \notin Range(need) THEN Append(need, id) ELSE need

\* The needIds loop over the first k chunks of the sorted section.
RECURSIVE NeedIds(_, _)
NeedIds(sorted, k) ==
    IF k = 0 THEN <<>>
    ELSE LET ch == Corpus[sorted[k]]
         IN AddNeeded(AddNeeded(AddNeeded(NeedIds(sorted, k - 1),
                ch.PrevChunkID), ch.ChunkID), ch.NextChunkID)

\* The two linq.Select stages for one section: the section as sort.Slice
\* leaves it, the passage, and the Find requests issued while building it.
Expand(sectionChunks, findFails) ==
    LET sorted == SortByWindow(sectionChunks, Len(sectionChunks))
        first == Corpus[sorted[1]]
        needIds == NeedIds(sorted, Len(sorted))
        fetched == fetchChunksByIds(Range(sorted), needIds, findFails)
        all == fetched.ordered
    IN [result |-> [Error |-> "", Title |-> first.Title,
                    Attribution |-> first.SourceURI, Id |-> first.SectionID,
                    Sentences |-> Flatten([i \in 1..Len(all) |->
                                              Corpus[all[i]].Sentences])],
        calls |-> fetched.calls,
        sorted |-> sorted]

ErrorChunk(e) ==
    [Error |-> e, Title |-> "", Attribution |-> "", Id |-> "",
     Sentences |-> <<>>]

\* ==================================================================== state
VARIABLES
    textRes,        \* what TermSearch's task yields: [err, hits]
    vecRes,         \* what VectorSearch's task yields: [err, hits]
    embedOk,        \* whether GetEmbedding succeeds
    failRrfFind,    \* whether Find fails while materialising the top-M ids
    failExpandFind, \* whether Find fails while expanding sections
    pc,             \* position of Run's goroutine
    launched,       \* tasks started so far
    awaited,        \* tasks whose result has been awaited
    textRanks, cache, vecRanks,
    combined,       \* id -> fused score
    ids,            \* the top-M ids, best first
    rankedChunks,   \* hybridSearch's result
    err,            \* hybridSearch's error, "" for nil
    sectionChunks,  \* GroupBySectionWithRank's result
    secIdx,         \* the section the linq pipeline is at
    result,         \* the passage waiting to be put on out
    sent,           \* every record put on out so far
    nRecv,          \* how many of them the consumer has received
    closed,         \* out is closed
    findCalls,      \* the Find requests issued so far: [stage, passed, ids]
    runs,           \* 1 during the first Run on these inputs, 2 during a second
    prevSent,       \* what the first Run put on its channel
    cancelled,      \* the request's ctx is cancelled
    suspendedAtCancel, \* Run's goroutine was blocked in out <- result then
    inFlightFails,  \* whether the Find the goroutine waits for fails
    route,          \* the pattern the HTTP request matches
    apiKey,         \* os.Getenv("API_KEY")
    authHeader,     \* r.Header.Get("Authorization")
    apiKeyHeader,   \* r.Header.Get("X-API-Key")
    reqBody,        \* what decoding the request body gives
    httpPc,         \* where the HTTP request is
    response,       \* the response written: [status, body]
    called          \* the handlers and tools called for the request

inputs == <<textRes, vecRes, embedOk, failRrfFind, failExpandFind>>
local == <<pc, launched, awaited, textRanks, cache, vecRanks, combined, ids,
           rankedChunks, err, sectionChunks, secIdx, result, sent, nRecv,
           closed, findCalls>>
runState == <<launched, awaited, textRanks, cache, vecRanks, combined, ids,
              rankedChunks, err, sectionChunks, secIdx, result, sent, nRecv,
              closed, findCalls>>
ctxVars == <<cancelled, suspendedAtCancel, inFlightFails>>
httpVars == <<route, apiKey, authHeader, apiKeyHeader, reqBody, httpPc,
              response, called>>
vars == <<inputs, local, runs, prevSent, ctxVars, httpVars>>

TaskResults(S) ==
    {[err |-> TRUE, hits |-> <<>>]}
    \cup {[err |-> FALSE, hits |-> h] : h \in SeqsUpTo(S, MaxHits)}

NoChunk == ErrorChunk("")

NoResponse == [status |-> 0, body |-> ""]

\* Run is called by a caller that is not the HTTP server: no request, a ctx
\* that is never cancelled.
NoRequest ==
    /\ cancelled = FALSE /\ suspendedAtCancel = FALSE
    /\ inFlightFails = FALSE
    /\ route = "/query" /\ apiKey = <<>>
    /\ authHeader = <<>> /\ apiKeyHeader = <<>>
    /\ reqBody = "ok" /\ httpPc = "direct"
    /\ response = NoResponse /\ called = {}

\* The entries findCalls gets for the Find requests of one fetchChunksByIds
\* call: the stage that called, the cache it passed and the ids requested.
FindLog(stage, passed, calls) ==
    [i \in 1..Len(calls) |->
        [stage |-> stage, passed |-> passed, ids |-> calls[i]]]

\* The state in which Run is called: nothing of the request exists yet.
Fresh ==
    /\ pc = "start"
    /\ launched = {} /\ awaited = {}
    /\ textRanks = EmptyMap /\ cache = {} /\ vecRanks = EmptyMap
    /\ combined = EmptyMap
    /\ ids = <<>> /\ rankedChunks = <<>> /\ err = ""
    /\ sectionChunks = <<>> /\ secIdx = 0 /\ result = NoChunk
    /\ sent = <<>> /\ nRecv = 0 /\ closed = FALSE
    /\ findCalls = <<>>

Init ==
    /\ textRes \in TaskResults(HitIds)
    /\ vecRes \in TaskResults(VecHitIds)
    /\ embedOk \in BOOLEAN
    /\ failRrfFind \in BOOLEAN
    /\ failExpandFind \in BOOLEAN
    /\ Fresh
    /\ runs = 1
    /\ prevSent = <<>>
    /\ NoRequest

\* out has room for one more record
OutHasRoom == Len(sent) - nRecv < OutCap

\* ---------------------------------------------------------------- hybridSearch
\* textTask := s.chunkRepository.TermSearch(...)
LaunchText ==
    /\ pc = "start"
    /\ launched' = launched \cup {"text"}
    /\ pc' = "embed"
    /\ UNCHANGED <<inputs, awaited, textRanks, cache, vecRanks, combined, ids,
                   rankedChunks, err, sectionChunks, secIdx, result, sent,
                   nRecv, closed, findCalls, runs, prevSent,
                   ctxVars, httpVars>>

\* s.embedder.GetEmbedding(ctx, ...) is issued; the goroutine then blocks
\* in async.Await until the call returns.
Embed ==
    /\ pc = "embed"
    /\ launched' = launched \cup {"embed"}
    /\ pc' = "awaitEmbed"
    /\ UNCHANGED <<inputs, awaited, textRanks, cache, vecRanks, combined, ids,
                   rankedChunks, err, sectionChunks, secIdx, result, sent,
                   nRecv, closed, findCalls, runs, prevSent,
                   ctxVars, httpVars>>

\* AwaitEmbed with the error only logged, as for the two engines.
AwaitEmbedErrorIgnored ==
    /\ pc = "awaitEmbed"
    /\ awaited' = awaited \cup {"embed"}
    /\ pc' = "launchVec" /\ err' = err
    /\ UNCHANGED <<inputs, launched, textRanks, cache, vecRanks, combined,
                   ids, rankedChunks, sectionChunks, secIdx, result, sent,
                   nRecv, closed, findCalls, runs, prevSent,
                   ctxVars, httpVars>>

\* emb, err := async.Await(...) returns; on error hybridSearch returns it
\* at once.
AwaitEmbed ==
    /\ pc = "awaitEmbed"
    /\ awaited' = awaited \cup {"embed"}
    /\ IF embedOk
       THEN pc' = "launchVec" /\ err' = err
       ELSE pc' = "sendErr" /\ err' = "embed"
    /\ UNCHANGED <<inputs, launched, textRanks, cache, vecRanks, combined,
                   ids, rankedChunks, sectionChunks, secIdx, result, sent,
                   nRecv, closed, findCalls, runs, prevSent,
                   ctxVars, httpVars>>

\* vecTask := s.vectorRepository.VectorSearch(...)
LaunchVec ==
    /\ pc = "launchVec"
    /\ launched' = launched \cup {"vec"}
    /\ pc' = "awaitText"
    /\ UNCHANGED <<inputs, awaited, textRanks, cache, vecRanks, combined, ids,
                   rankedChunks, err, sectionChunks, secIdx, result, sent,
                   nRecv, closed, findCalls, runs, prevSent,
                   ctxVars, httpVars>>

\* textRanks, cache, err := collectTextSearchRanks(textTask); an error is
\* only logged.
AwaitText ==
    /\ pc = "awaitText"
    /\ LET r == collectTextSearchRanks(textRes)
       IN textRanks' = r.ranks /\ cache' = r.cache
    /\ awaited' = awaited \cup {"text"}
    /\ pc' = "awaitVec"
    /\ UNCHANGED <<inputs, launched, vecRanks, combined, ids, rankedChunks,
                   err, sectionChunks, secIdx, result, sent, nRecv, closed,
                   findCalls, runs, prevSent,
                   ctxVars, httpVars>>

\* AwaitVec with the vector error returned instead of logged.
AwaitVecAbort ==
    /\ pc = "awaitVec"
    /\ vecRanks' = collectVectorSearchRanks(vecRes).ranks
    /\ awaited' = awaited \cup {"vec"}
    /\ IF vecRes.err
       THEN pc' = "sendErr" /\ err' = "await vector hits"
       ELSE pc' = "fuse" /\ err' = err
    /\ UNCHANGED <<inputs, launched, textRanks, cache, combined, ids,
                   rankedChunks, sectionChunks, secIdx, result, sent,
                   nRecv, closed, findCalls, runs, prevSent,
                   ctxVars, httpVars>>

\* vecRanks, err := collectVectorSearchRanks(vecTask); an error is only
\* logged.
AwaitVec ==
    /\ pc = "awaitVec"
    /\ vecRanks' = collectVectorSearchRanks(vecRes).ranks
    /\ awaited' = awaited \cup {"vec"}
    /\ pc' = "fuse"
    /\ UNCHANGED <<inputs, launched, textRanks, cache, combined, ids,
                   rankedChunks, err, sectionChunks, secIdx, result, sent,
                   nRecv, closed, findCalls, runs, prevSent,
                   ctxVars, httpVars>>

\* Steps 3 and 4 of hybridSearch: fuse, then keep the top maxChunks ids.
\* The ids come out of linq.Pipe2 over linq.FromSlice(ctx, ...): once ctx is
\* cancelled the pipeline may return an error instead, which hybridSearch
\* returns as "collect top-N".
FuseSelect ==
    /\ pc = "fuse"
    /\ combined' = Fuse(textRanks, vecRanks)
    /\ \E pipeFails \in (IF cancelled THEN BOOLEAN ELSE {FALSE}) :
          IF pipeFails
          THEN /\ ids' = <<>>
               /\ pc' = "sendErr"
               /\ err' = "collect top-N"
          ELSE /\ ids' \in TopIds(combined')
               /\ pc' = "materialise"
               /\ err' = err
    /\ UNCHANGED <<inputs, launched, awaited, textRanks, cache, vecRanks,
                   rankedChunks, sectionChunks, secIdx, result, sent,
                   nRecv, closed, findCalls, runs, prevSent,
                   ctxVars, httpVars>>

\* Materialise with an empty id list reported as an error.
MaterialiseEmptyIsError ==
    /\ pc = "materialise"
    /\ LET f == fetchChunksByIds(cache, ids, failRrfFind)
       IN /\ findCalls' = findCalls \o FindLog("rrf", cache, f.calls)
          /\ IF Len(f.calls) > 0
             THEN /\ inFlightFails' = failRrfFind
                  /\ rankedChunks' = rankedChunks
                  /\ pc' = "awaitRrfFind" /\ err' = err
             ELSE /\ inFlightFails' = inFlightFails
                  /\ rankedChunks' = f.ordered
                  /\ IF Len(ids) = 0
                     THEN pc' = "sendErr" /\ err' = "no results"
                     ELSE pc' = "group" /\ err' = err
    /\ UNCHANGED <<inputs, launched, awaited, textRanks, cache, vecRanks,
                   combined, ids, sectionChunks, secIdx, result, sent,
                   nRecv, closed, runs, prevSent,
                   cancelled, suspendedAtCancel, httpVars>>

\* return s.fetchChunksByIds(ctx, cache, ids), nil, up to the Find that
\* fetchChunksByIds issues for the ids missing from cache and waits for;
\* without missing ids there is no Find and the chunks are returned at once.
Materialise ==
    /\ pc = "materialise"
    /\ LET f == fetchChunksByIds(cache, ids, failRrfFind)
       IN /\ findCalls' = findCalls \o FindLog("rrf", cache, f.calls)
          /\ IF Len(f.calls) > 0
             THEN /\ inFlightFails' = failRrfFind
                  /\ rankedChunks' = rankedChunks
                  /\ pc' = "awaitRrfFind"
             ELSE /\ inFlightFails' = inFlightFails
                  /\ rankedChunks' = f.ordered
                  /\ pc' = "group"
    /\ UNCHANGED <<inputs, launched, awaited, textRanks, cache, vecRanks,
                   combined, ids, err, sectionChunks, secIdx, result, sent,
                   nRecv, closed, runs, prevSent,
                   cancelled, suspendedAtCancel, httpVars>>

\* The Find of the top-M ids returns (records, or an error that is only
\* logged) and fetchChunksByIds hands back the chunks it has, in ids order.
AwaitMaterialise ==
    /\ pc = "awaitRrfFind"
    /\ rankedChunks' = fetchChunksByIds(cache, ids, inFlightFails).ordered
    /\ pc' = "group"
    /\ UNCHANGED <<inputs, launched, awaited, textRanks, cache, vecRanks,
                   combined, ids, err, sectionChunks, secIdx, result, sent,
                   nRecv, closed, findCalls, runs, prevSent,
                   ctxVars, httpVars>>

\* -------------------------------------------------------------------- Run
\* err != nil: out <- &schema.ToolResultChunk{Error: err.Error()}; return
SendError ==
    /\ pc = "sendErr"
    /\ OutHasRoom
    /\ sent' = Append(sent, ErrorChunk(err))
    /\ pc' = "close"
    /\ UNCHANGED <<inputs, launched, awaited, textRanks, cache, vecRanks,
                   combined, ids, rankedChunks, err, sectionChunks, secIdx,
                   result, nRecv, closed, findCalls, runs, prevSent,
                   ctxVars, httpVars>>

\* sectionChunks := GroupBySectionWithRank(rankedChunks); linq.FromSlice
Group ==
    /\ pc = "group"
    /\ sectionChunks' \in GroupBySectionWithRank(rankedChunks)
    /\ secIdx' = 1
    /\ pc' = IF Len(sectionChunks') = 0 THEN "close" ELSE "expand"
    /\ UNCHANGED <<inputs, launched, awaited, textRanks, cache, vecRanks,
                   combined, ids, rankedChunks, err, result, sent, nRecv,
                   closed, findCalls, runs, prevSent,
                   ctxVars, httpVars>>

\* The two linq.Select stages applied to the next section, up to the Find
\* that fetchChunksByIds issues and waits for; without missing ids there is
\* no Find and the passage is built at once.  sort.Slice sorts in place the
\* slice that Run's sectionChunks holds for the section.
ExpandSection ==
    /\ pc = "expand"
    /\ LET e == Expand(sectionChunks[secIdx], failExpandFind)
       IN /\ sectionChunks' = [sectionChunks EXCEPT ![secIdx] = e.sorted]
          /\ findCalls' = findCalls
                \o FindLog("expand", Range(sectionChunks[secIdx]), e.calls)
          /\ IF Len(e.calls) > 0
             THEN /\ inFlightFails' = failExpandFind
                  /\ result' = result
                  /\ pc' = "awaitFind"
             ELSE /\ inFlightFails' = inFlightFails
                  /\ result' = e.result
                  /\ pc' = "emit"
    /\ UNCHANGED <<inputs, launched, awaited, textRanks, cache, vecRanks,
                   combined, ids, rankedChunks, err, secIdx,
                   sent, nRecv, closed, runs, prevSent,
                   cancelled, suspendedAtCancel, httpVars>>

\* The Find of the section's expansion returns (records, or an error that is
\* only logged) and the second Select builds the passage.
AwaitExpandFind ==
    /\ pc = "awaitFind"
    /\ result' = Expand(sectionChunks[secIdx], inFlightFails).result
    /\ pc' = "emit"
    /\ UNCHANGED <<inputs, launched, awaited, textRanks, cache, vecRanks,
                   combined, ids, rankedChunks, err, sectionChunks, secIdx,
                   sent, nRecv, closed, findCalls, runs, prevSent,
                   ctxVars, httpVars>>

\* linq.ForEach: out <- result; blocks while the buffer is full.
Emit ==
    /\ pc = "emit"
    /\ OutHasRoom
    /\ sent' = Append(sent, result)
    /\ result' = NoChunk
    /\ secIdx' = secIdx + 1
    /\ pc' = IF secIdx < Len(sectionChunks) THEN "expand" ELSE "close"
    /\ UNCHANGED <<inputs, launched, awaited, textRanks, cache, vecRanks,
                   combined, ids, rankedChunks, err, sectionChunks, nRecv,
                   closed, findCalls, runs, prevSent,
                   ctxVars, httpVars>>

\* close(out) as the goroutine's last statement instead of deferred: the
\* early return after the error record skips it.
CloseNotDeferred ==
    /\ pc = "close"
    /\ closed' = (err = "")
    /\ pc' = "done"
    /\ UNCHANGED <<inputs, launched, awaited, textRanks, cache, vecRanks,
                   combined, ids, rankedChunks, err, sectionChunks, secIdx,
                   result, sent, nRecv, findCalls, runs, prevSent,
                   ctxVars, httpVars>>

\* defer close(out)
Close ==
    /\ pc = "close"
    /\ closed' = TRUE
    /\ pc' = "done"
    /\ UNCHANGED <<inputs, launched, awaited, textRanks, cache, vecRanks,
                   combined, ids, rankedChunks, err, sectionChunks, secIdx,
                   result, sent, nRecv, findCalls, runs, prevSent,
                   ctxVars, httpVars>>

\* The caller of Run takes the next record off the channel.
Receive ==
    /\ nRecv < Len(sent)
    /\ nRecv' = nRecv + 1
    /\ UNCHANGED <<inputs, pc, launched, awaited, textRanks, cache, vecRanks,
                   combined, ids, rankedChunks, err, sectionChunks, secIdx,
                   result, sent, closed, findCalls, runs, prevSent,
                   ctxVars, httpVars>>

\* Run is called a second time with the same query against the same engines,
\* embedder and store, after the first call's channel has been drained.
Rerun ==
    /\ pc = "done"
    /\ nRecv = Len(sent)
    /\ runs = 1
    /\ runs' = 2
    /\ prevSent' = sent
    /\ pc' = "start"
    /\ launched' = {} /\ awaited' = {}
    /\ textRanks' = EmptyMap /\ cache' = {} /\ vecRanks' = EmptyMap
    /\ combined' = EmptyMap
    /\ ids' = <<>> /\ rankedChunks' = <<>> /\ err' = ""
    /\ sectionChunks' = <<>> /\ secIdx' = 0 /\ result' = NoChunk
    /\ sent' = <<>> /\ nRecv' = 0 /\ closed' = FALSE
    /\ findCalls' = <<>>
    /\ UNCHANGED <<inputs, ctxVars, httpVars>>

Next ==
    \/ LaunchText
    \/ Embed
    \/ AwaitEmbed
    \/ LaunchVec
    \/ AwaitText
    \/ AwaitVec
    \/ FuseSelect
    \/ Materialise
    \/ AwaitMaterialise
    \/ SendError
    \/ Group
    \/ ExpandSection
    \/ AwaitExpandFind
    \/ Emit
    \/ Close
    \/ Receive

\* One request.
Spec == Init /\ [][Next]_vars

\* Two requests with the same inputs, one after the other.
NextRerun == Next \/ Rerun
SpecRerun == Init /\ [][NextRerun]_vars

\* One request whose hits are b (both neighbours unranked), d (one
\* neighbour) and f (none).
InitExpand ==
    /\ textRes \in TaskResults({"b", "d", "f"})
    /\ vecRes \in TaskResults({"b", "f"})
    /\ embedOk \in BOOLEAN
    /\ failRrfFind \in BOOLEAN
    /\ failExpandFind \in BOOLEAN
    /\ Fresh
    /\ runs = 1
    /\ prevSent = <<>>
    /\ NoRequest

SpecExpand == InitExpand /\ [][Next]_vars

\* Requests that take each way out of Run: passages of one or two sections,
\* the error record, the empty result.
InitFair ==
    /\ textRes \in {[err |-> TRUE, hits |-> <<>>]}
                    \cup {[err |-> FALSE, hits |-> h] :
                            h \in {<<>>, <<"b">>, <<"b", "d">>, <<"d", "f">>}}
    /\ vecRes \in {[err |-> TRUE, hits |-> <<>>]}
                   \cup {[err |-> FALSE, hits |-> h] :
                           h \in {<<>>, <<"d">>}}
    /\ embedOk \in BOOLEAN
    /\ failRrfFind \in BOOLEAN
    /\ failExpandFind \in BOOLEAN
    /\ Fresh
    /\ runs = 1
    /\ prevSent = <<>>
    /\ NoRequest

\* One request when the consumer keeps receiving and every call of the
\* goroutine returns: neither the consumer nor the goroutine stops while it
\* has a step to take.
SpecFair ==
    InitFair /\ [][Next]_vars /\ WF_vars(Receive) /\ WF_vars(Next)

\* GroupBySectionWithRank on its own: a caller hands it any list of up to
\* MaxGroupLen distinct chunks of the store.
GroupInputs ==
    {s \in SeqsUpTo(ChunkIds, MaxGroupLen) :
        \A i, j \in 1..Len(s) : i # j => s[i] # s[j]}

InitGroup ==
    /\ textRes = [err |-> FALSE, hits |-> <<>>]
    /\ vecRes = [err |-> FALSE, hits |-> <<>>]
    /\ embedOk = TRUE
    /\ failRrfFind = FALSE
    /\ failExpandFind = FALSE
    /\ pc = "group"
    /\ launched = {} /\ awaited = {}
    /\ textRanks = EmptyMap /\ cache = {} /\ vecRanks = EmptyMap
    /\ combined = EmptyMap
    /\ rankedChunks \in GroupInputs
    /\ ids = rankedChunks
    /\ err = ""
    /\ sectionChunks = <<>> /\ secIdx = 0 /\ result = NoChunk
    /\ sent = <<>> /\ nRecv = 0 /\ closed = FALSE
    /\ findCalls = <<>>
    /\ runs = 1
    /\ prevSent = <<>>
    /\ NoRequest

NextGroup == Group
SpecGroup == InitGroup /\ [][NextGroup]_vars

\* Run from its grouping step on, given any list of up to MaxGroupLen
\* distinct ranked chunks: the sections are expanded and sent in the order
\* the grouper leaves them in, the expansion's Find succeeding or failing.
InitOrder ==
    /\ textRes = [err |-> FALSE, hits |-> <<>>]
    /\ vecRes = [err |-> FALSE, hits |-> <<>>]
    /\ embedOk = TRUE
    /\ failRrfFind = FALSE
    /\ failExpandFind \in BOOLEAN
    /\ pc = "group"
    /\ launched = {} /\ awaited = {}
    /\ textRanks = EmptyMap /\ cache = {} /\ vecRanks = EmptyMap
    /\ combined = EmptyMap
    /\ rankedChunks \in GroupInputs
    /\ ids = rankedChunks
    /\ err = ""
    /\ sectionChunks = <<>> /\ secIdx = 0 /\ result = NoChunk
    /\ sent = <<>> /\ nRecv = 0 /\ closed = FALSE
    /\ findCalls = <<>>
    /\ runs = 1
    /\ prevSent = <<>>
    /\ NoRequest

NextOrder ==
    \/ Group
    \/ ExpandSection
    \/ AwaitExpandFind
    \/ Emit
    \/ Close
    \/ Receive

SpecOrder == InitOrder /\ [][NextOrder]_vars

\* ------------------------------------------------------------ cancellation
\* What a call that takes ctx yields once ctx is cancelled.
CtxError == [err |-> TRUE, hits |-> <<>>]

\* The request's ctx is cancelled while Run's goroutine is at work.  ctx is
\* what Run hands to TermSearch, GetEmbedding, VectorSearch, Find and
\* linq.FromSlice: a call not started yet fails, a task in flight either has
\* its result already or fails.  Nothing in Run itself reads ctx.
Cancel ==
    /\ ~cancelled
    /\ pc \notin {"close", "done"}
    /\ cancelled' = TRUE
    /\ suspendedAtCancel' = (pc = "emit" /\ ~OutHasRoom)
    /\ textRes' \in IF "text" \in awaited THEN {textRes}
                    ELSE IF "text" \in launched THEN {textRes, CtxError}
                    ELSE {CtxError}
    /\ vecRes' \in IF "vec" \in awaited THEN {vecRes}
                   ELSE IF "vec" \in launched THEN {vecRes, CtxError}
                   ELSE {CtxError}
    /\ embedOk' \in IF "embed" \in awaited THEN {embedOk}
                    ELSE IF "embed" \in launched THEN {embedOk, FALSE}
                    ELSE {FALSE}
    /\ failRrfFind' = IF pc \in {"awaitRrfFind", "group", "expand",
                                  "awaitFind", "emit", "sendErr"}
                      THEN failRrfFind ELSE TRUE
    /\ failExpandFind' = TRUE
    /\ inFlightFails' \in IF pc \in {"awaitRrfFind", "awaitFind"}
                          THEN {inFlightFails, TRUE}
                          ELSE {inFlightFails}
    /\ UNCHANGED <<local, runs, prevSent, httpVars>>

\* linq.Pipe3 over linq.FromSlice(ctx, sectionChunks): once ctx is cancelled
\* the pipeline may stop before it takes the next section; Run logs the
\* error and returns.  A ForEach callback that has begun, out <- result, is
\* not interrupted.
PipelineAbort ==
    /\ cancelled
    /\ pc = "expand"
    /\ pc' = "close"
    /\ UNCHANGED <<inputs, runState, runs, prevSent, ctxVars, httpVars>>

\* A request whose engines, embedder and store work until ctx is cancelled.
InitCancel ==
    /\ textRes \in TaskResults(HitIds) /\ ~textRes.err
    /\ vecRes \in {[err |-> FALSE, hits |-> h] : h \in {<<>>, <<"d">>}}
    /\ embedOk = TRUE
    /\ failRrfFind = FALSE
    /\ failExpandFind = FALSE
    /\ Fresh
    /\ runs = 1
    /\ prevSent = <<>>
    /\ NoRequest

NextCancel == Next \/ Cancel \/ PipelineAbort
SpecCancel == InitCancel /\ [][NextCancel]_vars

\* -------------------------------------------------------------- HTTP layer
\* A header value or a key is a sequence of tokens; "" is <<>>.  " " is the
\* space strings.Split cuts at.
StatusOK == 200
StatusBadRequest == 400
StatusUnauthorized == 401
StatusInternalServerError == 500

ApiKeys == {<<>>, <<"k1">>}

AuthHeaders ==
    { <<>>,
      <<"Bearer", " ", "k1">>, <<"BEARER", " ", "k1">>, <<"bearer", " ", "k1">>,
      <<"Bearer", " ", "k2">>, <<"Bearer", " ", "K1">>,
      <<"Basic", " ", "k1">>,
      <<"k1">>, <<"k2">>, <<"Bearer">>,
      <<"Bearer", " ", " ", "k1">>,
      <<"Bearer", " ", "k1", " ", "k2">> }

ApiKeyHeaders == {<<>>, <<"k1">>, <<"k2">>, <<"K1">>}

Routes == {"/query", "/metadata/sources", "/privacy-policy"}

RequestBodies == {"ok", "badJson", "emptyQuery"}

\* strings.Split(s, " ")
RECURSIVE Split(_)
Split(s) ==
    IF \A i \in 1..Len(s) : s[i] # " " THEN <<s>>
    ELSE LET i == CHOOSE j \in 1..Len(s) :
                    s[j] = " " /\ \A k \in 1..(j - 1) : s[k] # " "
         IN <<SubSeq(s, 1, i - 1)>> \o Split(SubSeq(s, i + 1, Len(s)))

LowerToken(t) ==
    CASE t \in {"Bearer", "BEARER"} -> "bearer"
      [] t = "Basic" -> "basic"
      [] t = "K1" -> "k1"
      [] OTHER -> t

\* strings.ToLower
ToLower(s) == [i \in 1..Len(s) |-> LowerToken(s[i])]

Reject(status, body) == [next |-> FALSE, status |-> status, body |-> body]

\* APIKeyAuthMiddleware without the check that API_KEY is configured.
APIKeyAuthMiddlewareNoConfigCheck(key, auth, xkey) ==
    LET parts == Split(auth)
        providedKey ==
            IF auth # <<>>
            THEN IF Len(parts) = 2 /\ ToLower(parts[1]) = <<"bearer">>
                 THEN parts[2]
                 ELSE IF Len(parts) = 1 THEN parts[1] ELSE <<>>
            ELSE IF xkey # <<>> THEN xkey ELSE <<>>
    IN IF providedKey = <<>>
       THEN Reject(StatusUnauthorized, "API key required")
       ELSE IF providedKey # key
       THEN Reject(StatusUnauthorized, "Invalid API key")
       ELSE [next |-> TRUE, status |-> 0, body |-> ""]

\* APIKeyAuthMiddleware(next): whether next is called, and the response
\* written when it is not.
APIKeyAuthMiddleware(key, auth, xkey) ==
    IF key = <<>>
    THEN Reject(StatusInternalServerError, "Server configuration error")
    ELSE LET parts == Split(auth)
             providedKey ==
                 IF auth # <<>>
                 THEN IF Len(parts) = 2 /\ ToLower(parts[1]) = <<"bearer">>
                      THEN parts[2]
                      ELSE IF Len(parts) = 1 THEN parts[1] ELSE <<>>
                 ELSE IF xkey # <<>> THEN xkey ELSE <<>>
         IN IF providedKey = <<>>
            THEN Reject(StatusUnauthorized, "API key required")
            ELSE IF providedKey # key
            THEN Reject(StatusUnauthorized, "Invalid API key")
            ELSE [next |-> TRUE, status |-> 0, body |-> ""]

\* QueryController.Routes: {Pattern: "/query", Handler: c.HandleQuery}
QueryRoute ==
    /\ httpPc = "arrived"
    /\ route = "/query"
    /\ httpPc' = "HandleQuery"
    /\ called' = called \cup {"HandleQuery"}
    /\ UNCHANGED <<inputs, local, runs, prevSent, ctxVars, route, apiKey,
                   authHeader, apiKeyHeader, reqBody, response>>

\* MetadataController.Routes: {Pattern: "/metadata/sources",
\* Handler: middleware.APIKeyAuthMiddleware(mc.ListSources)}
SourcesRoute ==
    /\ httpPc = "arrived"
    /\ route = "/metadata/sources"
    /\ LET m == APIKeyAuthMiddleware(apiKey, authHeader, apiKeyHeader)
       IN IF m.next
          THEN /\ httpPc' = "ListSources"
               /\ called' = called \cup {"ListSources"}
               /\ response' = response
          ELSE /\ httpPc' = "responded"
               /\ called' = called
               /\ response' = [status |-> m.status, body |-> m.body]
    /\ UNCHANGED <<inputs, local, runs, prevSent, ctxVars, route, apiKey,
                   authHeader, apiKeyHeader, reqBody>>

\* HandleQuery up to c.tool.Run(ctx, req.Query)
HandleQuery ==
    /\ httpPc = "HandleQuery"
    /\ IF reqBody = "badJson"
       THEN /\ response' = [status |-> StatusBadRequest,
                            body |-> "Invalid request payload"]
            /\ httpPc' = "responded"
            /\ UNCHANGED <<pc, called>>
       ELSE IF reqBody = "emptyQuery"
       THEN /\ response' = [status |-> StatusBadRequest,
                            body |-> "Query is required"]
            /\ httpPc' = "responded"
            /\ UNCHANGED <<pc, called>>
       ELSE /\ pc' = "start"
            /\ called' = called \cup {"Run"}
            /\ httpPc' = "Render"
            /\ response' = response
    /\ UNCHANGED <<inputs, runState, runs, prevSent, ctxVars, route, apiKey,
                   authHeader, apiKeyHeader, reqBody>>

\* HandleQuery from c.toolResultRenderer.Render on, once Run's channel is
\* drained and closed.
RenderResponse ==
    /\ httpPc = "Render"
    /\ closed /\ nRecv = Len(sent)
    /\ \E renderOk \in BOOLEAN :
          response' = IF renderOk
                      THEN [status |-> StatusOK, body |-> "passages"]
                      ELSE [status |-> StatusInternalServerError,
                            body |-> "Failed to render tool results"]
    /\ httpPc' = "responded"
    /\ UNCHANGED <<inputs, local, runs, prevSent, ctxVars, route, apiKey,
                   authHeader, apiKeyHeader, reqBody, called>>

\* MetadataController.ListSources
ListSources ==
    /\ httpPc = "ListSources"
    /\ \E distinctOk \in BOOLEAN :
          response' = IF distinctOk
                      THEN [status |-> StatusOK, body |-> "sources"]
                      ELSE [status |-> StatusInternalServerError,
                            body |-> "Failed to fetch sources"]
    /\ httpPc' = "responded"
    /\ UNCHANGED <<inputs, local, runs, prevSent, ctxVars, route, apiKey,
                   authHeader, apiKeyHeader, reqBody, called>>

\* PrivacyController.Routes: {Pattern: "/privacy-policy",
\* Handler: pc.HandlePrivacyPolicy}
PrivacyRoute ==
    /\ httpPc = "arrived"
    /\ route = "/privacy-policy"
    /\ httpPc' = "HandlePrivacyPolicy"
    /\ called' = called \cup {"HandlePrivacyPolicy"}
    /\ UNCHANGED <<inputs, local, runs, prevSent, ctxVars, route, apiKey,
                   authHeader, apiKeyHeader, reqBody, response>>

\* PrivacyController.HandlePrivacyPolicy: 500 when the embedded template
\* does not parse, else 200 and the page.
HandlePrivacyPolicy ==
    /\ httpPc = "HandlePrivacyPolicy"
    /\ \E parseOk \in BOOLEAN :
          response' = IF parseOk
                      THEN [status |-> StatusOK, body |-> "privacy policy"]
                      ELSE [status |-> StatusInternalServerError,
                            body |-> "Failed to load privacy policy"]
    /\ httpPc' = "responded"
    /\ UNCHANGED <<inputs, local, runs, prevSent, ctxVars, route, apiKey,
                   authHeader, apiKeyHeader, reqBody, called>>

\* An HTTP request arrives at the server; Run has not been called.
InitHttp ==
    /\ textRes \in {[err |-> e, hits |-> <<"a", "d">>] : e \in BOOLEAN}
    /\ vecRes = [err |-> FALSE, hits |-> <<"d">>]
    /\ embedOk \in BOOLEAN
    /\ failRrfFind = FALSE
    /\ failExpandFind = FALSE
    /\ pc = "idle"
    /\ launched = {} /\ awaited = {}
    /\ textRanks = EmptyMap /\ cache = {} /\ vecRanks = EmptyMap
    /\ combined = EmptyMap
    /\ ids = <<>> /\ rankedChunks = <<>> /\ err = ""
    /\ sectionChunks = <<>> /\ secIdx = 0 /\ result = NoChunk
    /\ sent = <<>> /\ nRecv = 0 /\ closed = FALSE
    /\ findCalls = <<>>
    /\ runs = 1
    /\ prevSent = <<>>
    /\ cancelled = FALSE /\ suspendedAtCancel = FALSE
    /\ inFlightFails = FALSE
    /\ route \in Routes
    /\ apiKey \in ApiKeys
    /\ authHeader \in AuthHeaders
    /\ apiKeyHeader \in ApiKeyHeaders
    /\ reqBody \in RequestBodies
    /\ httpPc = "arrived"
    /\ response = NoResponse
    /\ called = {}

NextHttp ==
    \/ Next
    \/ QueryRoute
    \/ SourcesRoute
    \/ HandleQuery
    \/ RenderResponse
    \/ ListSources
    \/ PrivacyRoute
    \/ HandlePrivacyPolicy

SpecHttp == InitHttp /\ [][NextHttp]_vars

\* =================================================================== claims
\* hybridSearch has fused and selected, and returned no error.
AfterFuse ==
    /\ pc \in {"materialise", "awaitRrfFind", "group", "expand", "awaitFind",
               "emit", "close", "done"}
    /\ err = ""

IsPassage(r) == r.Error = ""
IsError(r) == r.Error # ""

Min(x, y) == IF x < y THEN x ELSE y

\* 1-based position of the first occurrence of x in s
FirstPos(s, x) == CHOOSE i \in 1..Len(s) : s[i] = x /\ \A j \in 1..(i - 1) : s[j] # x

\* C1: for every chunk id d, the fused score is the sum of
\* weight_e / (rrfK + rank_e(d)) over exactly the engines that ranked d, and
\* only ranked ids have a score.  With s the score in 1/ScoreScale units,
\* s/ScoreScale = wt/(rrfK+rt) + wv/(rrfK+rv) is stated cross-multiplied.
C1_FusedScoreIsRrfSum ==
    AfterFuse =>
        /\ DOMAIN combined = DOMAIN textRanks \cup DOMAIN vecRanks
        /\ \A d \in DOMAIN combined :
            LET inT == d \in DOMAIN textRanks
                inV == d \in DOMAIN vecRanks
                dt == IF inT THEN rrfK + textRanks[d] ELSE 1
                dv == IF inV THEN rrfK + vecRanks[d] ELSE 1
            IN combined[d] * dt * dv
                 = ScoreScale * ((IF inT THEN textSearchWeight * dv ELSE 0)
                               + (IF inV THEN vectorSearchWeight * dt ELSE 0))

\* Fused: one id ranked by both engines, one by the lexical engine only and
\* one by the vector engine only.
C1_Witness ==
    /\ AfterFuse
    /\ \E d \in DOMAIN combined : d \in DOMAIN textRanks /\ d \in DOMAIN vecRanks
    /\ \E d \in DOMAIN combined : d \in DOMAIN textRanks /\ d \notin DOMAIN vecRanks
    /\ \E d \in DOMAIN combined : d \notin DOMAIN textRanks /\ d \in DOMAIN vecRanks

\* C2: the selected id list has no duplicates, has exactly
\* min(maxChunks, number of distinct ranked ids) ids, is in non-increasing
\* fused-score order, and no ranked id left out scores strictly higher than
\* an id kept.
C2_TopMSelection ==
    AfterFuse =>
        LET ranked == DOMAIN textRanks \cup DOMAIN vecRanks
        IN /\ \A i, j \in 1..Len(ids) : i # j => ids[i] # ids[j]
           /\ Range(ids) \subseteq ranked
           /\ Len(ids) = Min(maxChunks, Cardinality(ranked))
           /\ \A i, j \in 1..Len(ids) : i < j => combined[ids[i]] >= combined[ids[j]]
           /\ \A x \in ranked \ Range(ids) : \A y \in Range(ids) :
                  combined[x] <= combined[y]

\* More ids were ranked than are kept, and a kept id outscores a dropped one.
C2_Witness ==
    /\ AfterFuse
    /\ Cardinality(DOMAIN combined) > maxChunks
    /\ \E x \in DOMAIN combined \ Range(ids) : \E y \in Range(ids) :
          combined[x] < combined[y]

\* The section aggregates GroupBySectionWithRank sorts by, per section id.
SentAgg(r) == SectionAggs(rankedChunks)[r.Id]

\* C3: passages are put on the stream in section order: of two passages the
\* earlier one's section has the greater or equal score; on equal scores the
\* smaller best_rank; on equal best_rank too, the larger count.
C3_SectionOrder ==
    \A i, j \in 1..Len(sent) :
        (i < j /\ IsPassage(sent[i]) /\ IsPassage(sent[j])) =>
            LET x == SentAgg(sent[i])
                y == SentAgg(sent[j])
                xs == x.score.n * y.score.d
                ys == y.score.n * x.score.d
            IN /\ xs >= ys
               /\ xs = ys => x.bestRank <= y.bestRank
               /\ (xs = ys /\ x.bestRank = y.bestRank) => x.count >= y.count

\* Three passages are on the stream.  The first one's section scores
\* strictly higher than the second one's; the second and the third sections
\* have equal scores, and the second, S3 with one chunk, has the smaller
\* best_rank while the third, S2 with two chunks, has the larger count.
C3_Witness ==
    /\ Len(sent) = 3
    /\ \A i \in 1..3 : IsPassage(sent[i])
    /\ sent[1].Id = "S1" /\ sent[2].Id = "S3" /\ sent[3].Id = "S2"
    /\ SentAgg(sent[1]).score.n * SentAgg(sent[2]).score.d
         > SentAgg(sent[2]).score.n * SentAgg(sent[1]).score.d
    /\ SentAgg(sent[2]).score.n * SentAgg(sent[3]).score.d
         = SentAgg(sent[3]).score.n * SentAgg(sent[2]).score.d
    /\ SentAgg(sent[2]).bestRank < SentAgg(sent[3]).bestRank
    /\ SentAgg(sent[2]).count < SentAgg(sent[3]).count

\* The chunks of a passage's section among the ranked chunks, by ascending
\* window index.
SectionByWindow(secId) ==
    LET cs == {c \in Range(rankedChunks) : Corpus[c].SectionID = secId}
    IN CHOOSE s \in Perms(cs) :
          \A i, j \in 1..Len(s) :
              i < j => Corpus[s[i]].WindowIndex <= Corpus[s[j]].WindowIndex

\* prev, self, next of each chunk of s in turn
Adjacency(s) ==
    Flatten([i \in 1..Len(s) |->
        <<Corpus[s[i]].PrevChunkID, s[i], Corpus[s[i]].NextChunkID>>])

\* C4: every emitted passage's sentences are the concatenation of the
\* sentence lists of distinct chunks, taken in the order in which the chunks
\* first appear when the section's chunks are walked in ascending
\* window_index, each as prev, self, next; no chunk is included twice.
C4_PassageSentences ==
    \A k \in 1..Len(sent) :
        IsPassage(sent[k]) =>
            LET adj == Adjacency(SectionByWindow(sent[k].Id))
                cand == Range(adj) \ {""}
            IN \E R \in SUBSET cand : \E q \in Perms(R) :
                  /\ \A i, j \in 1..Len(q) :
                        i < j => FirstPos(adj, q[i]) < FirstPos(adj, q[j])
                  /\ sent[k].Sentences
                        = Flatten([i \in 1..Len(q) |-> Corpus[q[i]].Sentences])

\* A passage built from the two outer chunks of S1, which share the
\* neighbour b: b's sentences appear once, between theirs.
C4_Witness ==
    /\ Range(rankedChunks) = {"a", "c"}
    /\ \E k \in 1..Len(sent) :
          sent[k].Sentences = <<"a1", "a2", "b1", "c1">>

\* The first maxChunks distinct ids of the hit list h, in hit order.
IsDistinctPrefix(l, h) ==
    /\ Range(l) \subseteq Range(h)
    /\ Len(l) = Min(maxChunks, Cardinality(Range(h)))
    /\ \A i, j \in 1..Len(l) : i < j => FirstPos(h, l[i]) < FirstPos(h, l[j])
    /\ \A x \in Range(h) \ Range(l) : \A y \in Range(l) :
          FirstPos(h, y) < FirstPos(h, x)

VectorFailsOnly ==
    embedOk /\ vecRes.err /\ ~textRes.err /\ Len(textRes.hits) > 0

\* C5: when the embedding succeeds, the vector search fails and the lexical
\* search returns hits, the request produces the passages of the
\* lexical-only fusion: every lexical id scores 1/(rrfK + rank), the ranked
\* chunks are the first maxChunks distinct lexical hits in hit order, there
\* is one passage per section of those chunks, and no error record is put on
\* the stream.
C5_VectorFailureLexicalOnly ==
    VectorFailsOnly =>
        /\ \A k \in 1..Len(sent) : IsPassage(sent[k])
        /\ err = ""
        /\ AfterFuse =>
              /\ DOMAIN combined = Range(textRes.hits)
              /\ \A d \in DOMAIN combined :
                    combined[d] * (rrfK + FirstPos(textRes.hits, d)) = ScoreScale
              /\ IsDistinctPrefix(ids, textRes.hits)
        /\ pc = "done" =>
              /\ closed
              /\ rankedChunks = ids
              /\ {sent[k].Id : k \in 1..Len(sent)}
                    = {Corpus[c].SectionID : c \in Range(ids)}
              /\ Len(sent) = Cardinality({Corpus[c].SectionID : c \in Range(ids)})

\* The vector search failed, the lexical search returned chunks of two
\* sections, and the request is over with two passages.
C5_Witness ==
    /\ VectorFailsOnly
    /\ pc = "done"
    /\ Len(sent) = 2

\* C6: when embedding acquisition fails and the lexical search succeeds
\* with hits, the request produces the passages of the lexical-only fusion
\* (one per section of the first maxChunks distinct lexical hits) and no
\* error record is put on the stream.
C6_EmbedFailureLexicalOnly ==
    (~embedOk /\ ~textRes.err /\ Len(textRes.hits) > 0 /\ pc = "done") =>
        /\ \A k \in 1..Len(sent) : IsPassage(sent[k])
        /\ IsDistinctPrefix(ids, textRes.hits)
        /\ {sent[k].Id : k \in 1..Len(sent)}
              = {Corpus[c].SectionID : c \in Range(ids)}

NumErrors == Cardinality({k \in 1..Len(sent) : IsError(sent[k])})

\* C7: if embedding acquisition fails, the stream carries exactly one
\* record, an error record, and is then closed; in every request the stream
\* carries at most one error record, and a stream that carries an error
\* record carries no passage.
C7_EmbedFailureSingleError ==
    /\ ~embedOk =>
          /\ \A k \in 1..Len(sent) : IsError(sent[k])
          /\ Len(sent) <= 1
          /\ closed => Len(sent) = 1
          /\ pc = "done" => closed
    /\ NumErrors <= 1
    /\ NumErrors = 1 => \A k \in 1..Len(sent) : ~IsPassage(sent[k])

\* The embedding failed although the lexical search had hits; the stream is
\* closed with its one error record.
C7_Witness ==
    /\ ~embedOk
    /\ ~textRes.err /\ Len(textRes.hits) > 0
    /\ closed
    /\ Len(sent) = 1 /\ IsError(sent[1])

\* C8: when both the lexical search and the vector search fail in one
\* request, exactly one error record is put on the stream and the stream is
\* then closed.
C8_BothEnginesFailSingleError ==
    (embedOk /\ textRes.err /\ vecRes.err /\ pc = "done") =>
        /\ closed
        /\ Len(sent) = 1
        /\ IsError(sent[1])

ZeroHits ==
    /\ embedOk
    /\ ~textRes.err /\ Len(textRes.hits) = 0
    /\ ~vecRes.err /\ Len(vecRes.hits) = 0

\* C9: when the embedding succeeds and both engines return zero hits, the
\* stream is closed having carried no passage and no error record, and no
\* store fetch (Find) is issued.
C9_ZeroHitsEmptyStream ==
    ZeroHits =>
        /\ sent = <<>>
        /\ findCalls = <<>>
        /\ pc = "done" => closed

\* Both engines returned zero hits and the request is over.
C9_Witness ==
    /\ ZeroHits
    /\ pc = "done" /\ closed
    /\ "text" \in awaited /\ "vec" \in awaited

\* C10: given the same lexical hit list, vector hit list, embedder output
\* and store behaviour, a second Run emits the same sequence of passages as
\* the first, also when several chunk ids have equal fused scores.
C10_RunsAgree ==
    (runs = 2 /\ pc = "done") => sent = prevSent

\* hybridSearch has returned its chunks without error.
AfterMaterialise ==
    /\ pc \in {"group", "expand", "awaitFind", "emit", "close", "done"}
    /\ err = ""

\* The passage sequences Run emits for the chunk list ranked.
PassageSeqs(ranked, findFails) ==
    {[i \in 1..Len(g) |-> Expand(g[i], findFails).result] :
        g \in GroupBySectionWithRank(ranked)}

\* C11: for fixed engine outputs and a store that serves every chunk, the
\* passage sequence emitted with the chunk cache filled from the lexical
\* hits is the sequence emitted for the same top-M ids when the cache is
\* empty and every top-M chunk is fetched from the store.
C11_CacheEquivalence ==
    (pc = "done" /\ err = "" /\ ~failRrfFind /\ Range(ids) \subseteq ChunkIds) =>
        sent \in PassageSeqs(fetchChunksByIds({}, ids, FALSE).ordered,
                             failExpandFind)

\* A finished request whose top-M ids were served partly from the cache and
\* partly from the store, the fetched id ranking first.
C11_Witness ==
    /\ pc = "done" /\ err = "" /\ ~failRrfFind
    /\ Len(ids) = 2
    /\ ids[1] \in ChunkIds \ cache
    /\ ids[2] \in cache
    /\ Len(sent) = 2

\* An id is resolved when the cache passed holds it or Find returns it.
Resolvable(id, passed, findFails) ==
    id \in passed \/ (~findFails /\ id \in ChunkIds)

\* The indices of s in increasing order, as a sequence.
RECURSIVE Ascending(_)
Ascending(S) ==
    IF S = {} THEN <<>>
    ELSE LET m == CHOOSE x \in S : \A y \in S : x <= y
         IN <<m>> \o Ascending(S \ {m})

\* The non-empty ids of adj, each at its first occurrence only.
FirstOccurrences(adj) ==
    LET keep == {i \in 1..Len(adj) :
                    adj[i] # "" /\ \A j \in 1..(i - 1) : adj[j] # adj[i]}
        idx == Ascending(keep)
    IN [i \in 1..Len(idx) |-> adj[idx[i]]]

\* C12: when a batched store fetch fails or returns only some of the
\* requested ids, the request is not aborted and no error record is
\* emitted: the ranked chunks are exactly the top-M ids that the cache or
\* the returned records resolve, in id order; every section of them gets its
\* passage; and a passage's sentences are those of exactly the needed ids
\* that the section's chunks or the returned records resolve, in needed
\* order.  Unresolved ids are omitted.
C12_FetchFailureDegrades ==
    /\ embedOk => \A k \in 1..Len(sent) : IsPassage(sent[k])
    /\ AfterMaterialise =>
          rankedChunks
            = SelectSeq(ids, LAMBDA id : Resolvable(id, cache, failRrfFind))
    /\ (pc = "done" /\ err = "") =>
          /\ closed
          /\ {sent[k].Id : k \in 1..Len(sent)}
                = {Corpus[c].SectionID : c \in Range(rankedChunks)}
    /\ \A k \in 1..Len(sent) :
          IsPassage(sent[k]) =>
            LET sec == SectionByWindow(sent[k].Id)
                need == FirstOccurrences(Adjacency(sec))
                got == SelectSeq(need, LAMBDA id :
                          Resolvable(id, Range(sec), failExpandFind))
            IN sent[k].Sentences
                 = Flatten([i \in 1..Len(got) |-> Corpus[got[i]].Sentences])

\* The top-M fetch returned one of the two ids it asked for (x has no
\* record) and the neighbour fetch failed: the passage holds d's sentences
\* without its neighbour e's.
C12_Witness ==
    /\ pc = "done"
    /\ ~failRrfFind /\ failExpandFind
    /\ "x" \in Range(ids) /\ "d" \in Range(ids) /\ "d" \notin cache
    /\ rankedChunks = <<"d">>
    /\ Len(sent) = 1 /\ sent[1].Sentences = <<"d1">>

RECURSIVE SumOver(_, _)
SumOver(f, S) ==
    IF S = {} THEN 0
    ELSE LET x == CHOOSE y \in S : TRUE IN f[x] + SumOver(f, S \ {x})

\* The positions in the grouper's input of the chunks of section s.
Members(s) ==
    {k \in 1..Len(rankedChunks) : Corpus[rankedChunks[k]].SectionID = s}

WindowAt(k) == Corpus[rankedChunks[k]].WindowIndex

\* Some chunk earlier in the grouper's input, of the same section as the
\* chunk at k, has the window index just before that chunk's.
EarlierHasPreviousWindow(s, k) ==
    \E j \in Members(s) : j < k /\ WindowAt(j) = WindowAt(k) - 1

\* C17: in GroupBySectionWithRank the adjacency bonus 0.15*w(r) is added
\* for a chunk exactly when a chunk earlier in the ranked input, of the same
\* section, has the window index one less; never because of a later chunk,
\* and at most once per chunk: the section's score before diminishing is
\* the sum of w(r) over its chunks plus 0.15*w(r) over those chunks.
C17_AdjacencyBonus ==
    AfterMaterialise =>
        LET secs == GroupFold(rankedChunks, Len(rankedChunks))
        IN \A s \in DOMAIN secs :
            LET due == {k \in Members(s) : EarlierHasPreviousWindow(s, k)}
            IN /\ secs[s].bonusAt = due
               /\ 20 * secs[s].score
                    = SumOver([k \in Members(s) |-> 20 * (GroupScale \div k)],
                              Members(s))
                      + SumOver([k \in due |-> 3 * (GroupScale \div k)], due)

\* Chunk a (window 1) is ranked first and chunk b (window 2) of the same
\* section second: b gets the bonus, a does not.
C17_Witness ==
    /\ AfterMaterialise
    /\ rankedChunks = <<"a", "b">>
    /\ GroupFold(rankedChunks, 2)["S1"].bonusAt = {2}

\* C18: the division by 1 + 0.10*(count-1) is applied exactly once to each
\* section that collected more than one chunk, after all chunks are placed,
\* and never to a section with exactly one chunk.  With pre the score after
\* the placing loop: score = pre * 10 / (10 + (count-1)) when count > 1, and
\* score is pre untouched when count = 1.
C18_DiminishingReturns ==
    AfterMaterialise =>
        LET secs == GroupFold(rankedChunks, Len(rankedChunks))
            aggs == SectionAggs(rankedChunks)
        IN \A s \in DOMAIN aggs :
            IF aggs[s].count > 1
            THEN aggs[s].score.n * (10 + (aggs[s].count - 1))
                    = secs[s].score * 10 * aggs[s].score.d
            ELSE aggs[s].score = [n |-> secs[s].score, d |-> 1]

\* The request is over with one passage for a section that collected two
\* chunks.
C18_Witness ==
    /\ pc = "done" /\ err = ""
    /\ Len(rankedChunks) = 2
    /\ SectionAggs(rankedChunks)["S1"].count = 2
    /\ Len(sent) = 1

\* C19: the rank r in the grouper's contribution w(r) = 1/r is the chunk's
\* 1-based position in the fused top-M ordering, also when a higher-ranked
\* top-M id was not resolved to a chunk record: a section's best_rank is the
\* least top-M position of its chunks and its score before diminishing is
\* the sum of w and bonus at those positions.
C19_RankIsTopMPosition ==
    AfterMaterialise =>
        LET secs == GroupFold(rankedChunks, Len(rankedChunks))
            pos(k) == FirstPos(ids, rankedChunks[k])
        IN \A s \in DOMAIN secs :
            /\ \A k \in Members(s) : secs[s].bestRank <= pos(k)
            /\ \E k \in Members(s) : secs[s].bestRank = pos(k)
            /\ 20 * secs[s].score
                 = SumOver([k \in Members(s) |->
                              20 * (GroupScale \div pos(k))
                              + (IF k \in secs[s].bonusAt
                                 THEN 3 * (GroupScale \div pos(k)) ELSE 0)],
                           Members(s))

\* C20: during neighbour expansion, an id of the needed list that is in the
\* RRF-stage chunk cache or in the section-local cache is served locally and
\* never requested from the store.
C20_CachedIdsNotFetched ==
    \A k \in 1..Len(findCalls) :
        findCalls[k].stage = "expand" =>
            \A id \in Range(findCalls[k].ids) :
                id \notin cache /\ id \notin findCalls[k].passed

NumPassages(q) == Cardinality({k \in 1..Len(q) : IsPassage(q[k])})

\* C13: once the request's ctx is cancelled no further passage is put on
\* the output stream (and the stream is eventually closed), including when
\* Run's goroutine is suspended on a full output buffer at the moment of
\* cancellation.  Stated for that case: after a cancellation that found the
\* goroutine blocked in out <- result, no step adds a passage to the stream.
C13_NoPassageAfterCancel ==
    [][(cancelled /\ suspendedAtCancel)
          => NumPassages(sent') = NumPassages(sent)]_vars

\* The request went through the route table.
Dispatched == httpPc # "arrived"

\* The request presents key as a bearer token, as the bare value of
\* Authorization, or, with no Authorization header, as X-API-Key.
Presents(key) ==
    \/ \E b \in {"Bearer", "BEARER", "bearer"} : authHeader = <<b, " ">> \o key
    \/ authHeader = key
    \/ authHeader = <<>> /\ apiKeyHeader = key

\* The request carries some key where the middleware looks for one.
PresentsAKey ==
    \/ \E b \in {"Bearer", "BEARER", "bearer"} :
          /\ Len(authHeader) = 3
          /\ SubSeq(authHeader, 1, 2) = <<b, " ">>
          /\ authHeader[3] # " "
    \/ Len(authHeader) > 0 /\ \A i \in 1..Len(authHeader) : authHeader[i] # " "
    \/ authHeader = <<>> /\ apiKeyHeader # <<>>

\* C14: APIKeyAuthMiddleware calls the wrapped handler only when API_KEY is
\* non-empty and the key taken from the request equals it; otherwise the
\* handler is never called and the response is 500 when API_KEY is not
\* configured, 401 (key required) when no key is provided and 401 (invalid)
\* when the key provided is wrong.
C14_MiddlewareGuardsHandler ==
    (route = "/metadata/sources" /\ Dispatched) =>
        IF apiKey # <<>> /\ Presents(apiKey)
        THEN "ListSources" \in called
        ELSE /\ "ListSources" \notin called
             /\ httpPc = "responded"
             /\ response =
                  IF apiKey = <<>>
                  THEN [status |-> StatusInternalServerError,
                        body |-> "Server configuration error"]
                  ELSE IF ~PresentsAKey
                  THEN [status |-> StatusUnauthorized,
                        body |-> "API key required"]
                  ELSE [status |-> StatusUnauthorized,
                        body |-> "Invalid API key"]

\* A request with the key in upper-case "BEARER" form reached ListSources,
\* which answered.
C14_Witness ==
    /\ route = "/metadata/sources"
    /\ apiKey = <<"k1">>
    /\ authHeader = <<"BEARER", " ", "k1">>
    /\ "ListSources" \in called
    /\ response.status = StatusOK

\* C15: a request that carries the configured API key either as
\* Authorization: Bearer <key> or as X-API-Key: <key> is passed to the
\* wrapped handler, whatever the other of the two headers contains.
C15_EitherHeaderAccepted ==
    (/\ route = "/metadata/sources" /\ Dispatched
     /\ apiKey # <<>>
     /\ \/ authHeader = <<"Bearer", " ">> \o apiKey
        \/ apiKeyHeader = apiKey)
        => "ListSources" \in called

\* C16: every request to the search endpoint goes through the API-key check
\* before the pipeline is started: Run is called only for a request that
\* the check lets through.
C16_QueryRequiresKey ==
    "Run" \in called =>
        APIKeyAuthMiddleware(apiKey, authHeader, apiKeyHeader).next

\* The sections whose neighbour expansion has run.
Expanded ==
    {i \in 1..Len(sectionChunks) :
        i < secIdx
        \/ (i = secIdx /\ pc \in {"awaitFind", "emit", "close", "done"})}

\* The Find requests issued while expanding section i (sections hold disjoint,
\* non-empty sets of chunks, so the cache passed tells the section).
ExpandCalls(i) ==
    {k \in 1..Len(findCalls) :
        /\ findCalls[k].stage = "expand"
        /\ findCalls[k].passed = Range(sectionChunks[i])}

\* The needed ids of section i that its own chunks do not serve, in the
\* order of the needed list.
NotServedLocally(i) ==
    SelectSeq(FirstOccurrences(Adjacency(
                 SectionByWindow(Corpus[sectionChunks[i][1]].SectionID))),
              LAMBDA id : id \notin Range(sectionChunks[i]))

\* C21: for each section, neighbour expansion issues at most one Find call,
\* and that call requests all of the section's needed ids that were not
\* served locally; no Find call is issued for a section whose needed ids are
\* all served locally, nor for a section not expanded yet.
C21_OneBatchedFind ==
    (pc \in {"expand", "awaitFind", "emit", "close", "done"} /\ err = "") =>
        \A i \in 1..Len(sectionChunks) :
            IF i \in Expanded /\ Len(NotServedLocally(i)) > 0
            THEN /\ Cardinality(ExpandCalls(i)) = 1
                 /\ \A k \in ExpandCalls(i) :
                       findCalls[k].ids = NotServedLocally(i)
            ELSE ExpandCalls(i) = {}

\* The request is over with two sections expanded: the one whose single
\* ranked chunk is b misses both neighbours, fetched by one request for a
\* and c, and the one whose single chunk f has no neighbours got none.
C21_Witness ==
    /\ pc = "done" /\ err = ""
    /\ Len(sectionChunks) = 2
    /\ \E i, j \in 1..2 :
          /\ sectionChunks[i] = <<"b">>
          /\ sectionChunks[j] = <<"f">>
          /\ ExpandCalls(j) = {}
          /\ \E k \in ExpandCalls(i) : findCalls[k].ids = <<"a", "c">>

\* C22: in every request the lexical search task and the embed+vector
\* search task are both launched and both awaited before the pipeline
\* produces its result (passages or error); fusion reads the two rank maps
\* only after both tasks have completed, and no launched engine task is left
\* un-awaited.
C22_BothTasksAwaited ==
    /\ (Len(sent) > 0 \/ closed) =>
          /\ {"text", "vec"} \subseteq launched
          /\ launched \subseteq awaited
    /\ AfterFuse => {"text", "vec"} \subseteq awaited

\* The section ids among the chunks hybridSearch returned.
RankedSections == {Corpus[c].SectionID : c \in Range(rankedChunks)}

\* C23: if the consumer keeps receiving until the stream is closed and
\* every store and embedding call returns, then on every path (passages,
\* error record, empty result) Run's goroutine terminates and the stream is
\* closed exactly once, after a finite number of records: one error record,
\* or at most one passage per distinct section id among the top-M chunks.
\* Once closed, the goroutine is over (it can neither close nor send again).
C23_TerminatesAndCloses ==
    /\ <>(pc = "done" /\ closed /\ nRecv = Len(sent))
    /\ [](closed => pc = "done")
    /\ [](IF err # "" THEN Len(sent) <= 1
          ELSE /\ Len(sent) <= Cardinality(RankedSections)
               /\ \A i, j \in 1..Len(sent) :
                     sent[i].Id = sent[j].Id => i = j)

\* The stream is closed and drained after two passages, of two sections.
C23_Witness ==
    /\ pc = "done" /\ closed
    /\ Len(sent) = 2 /\ nRecv = 2
    /\ Cardinality(RankedSections) = 2
    /\ sent[1].Id # sent[2].Id

\* Sections s and t have the same score.
SameScore(x, y) == x.score.n * y.score.d = y.score.n * x.score.d

\* The position in GroupBySectionWithRank's input of the first chunk of
\* section s.
FirstChunkAt(s) ==
    CHOOSE k \in Members(s) : \A j \in Members(s) : k <= j

\* C24: in GroupBySectionWithRank no two sections ever have the same
\* best_rank, each section's best_rank being the input position of its first
\* chunk; so two sections with equal score are always ordered by best_rank,
\* the count tie-break never decides an order, and the output is a function
\* of the input chunk list alone, whatever order the sections map is
\* iterated in.
C24_BestRankDecidesTies ==
    LET aggs == SectionAggs(rankedChunks)
    IN /\ \A s \in DOMAIN aggs : aggs[s].bestRank = FirstChunkAt(s)
       /\ \A s, t \in DOMAIN aggs :
             s # t =>
               /\ aggs[s].bestRank # aggs[t].bestRank
               /\ kvCmp(aggs[s], aggs[t]) # 0
               /\ SameScore(aggs[s], aggs[t]) =>
                     kvCmp(aggs[s], aggs[t])
                       = (IF aggs[s].bestRank < aggs[t].bestRank THEN -1 ELSE 1)
       /\ Cardinality(GroupBySectionWithRank(rankedChunks)) = 1
       /\ pc # "group" =>
             \A i, j \in 1..Len(sectionChunks) :
                 (/\ i < j
                  /\ SameScore(aggs[Corpus[sectionChunks[i][1]].SectionID],
                               aggs[Corpus[sectionChunks[j][1]].SectionID]))
                    => FirstChunkAt(Corpus[sectionChunks[i][1]].SectionID)
                         < FirstChunkAt(Corpus[sectionChunks[j][1]].SectionID)

\* The grouper has run on a list in which section S3 (one chunk, at rank 3)
\* and section S2 (two chunks, at ranks 5 and 6) tie at score 1/3: S3, with
\* the better best_rank but the smaller count, comes out before S2.
C24_Witness ==
    /\ pc = "expand"
    /\ LET aggs == SectionAggs(rankedChunks)
       IN /\ {"S2", "S3"} \subseteq DOMAIN aggs
          /\ SameScore(aggs["S2"], aggs["S3"])
          /\ aggs["S3"].count < aggs["S2"].count
          /\ aggs["S3"].bestRank < aggs["S2"].bestRank
          /\ \E i, j \in 1..Len(sectionChunks) :
                /\ i < j
                /\ sectionChunks[i] = <<"f">>
                /\ Range(sectionChunks[j]) = {"d", "e"}

====
